---- MODULE Spec2Model ----
(***************************************************************************)
(* Preset loading and extension application of src/scripts/prepare/        *)
(* bundle.ts: loadPreset / loadPresets / getPresets (the load pass) and    *)
(* applyPresets (the fold over the loaded list).                           *)
(*                                                                         *)
(* The load pass is a tree of loadPreset calls.  Every call is one record  *)
(* of `calls'; the calls of one loadPresets list are dispatched together   *)
(* (Promise.all over presets.map) and settle in any order.                 *)
(***************************************************************************)
EXTENDS Integers, Sequences, FiniteSets, TLC

(* ------------------------------ bounds --------------------------------- *)
MaxTop == 2        \* specifiers handed to getPresets
MaxSub == 2        \* length of one nested list (array contents, presets, addons)
MaxCalls == 3      \* loadPreset calls of one pass
MaxLevel == 2      \* deepest `level' argument of loadPreset
MaxPresets == 2    \* LoadedPreset records in the list applyPresets folds
MaxApplies == 1    \* apply calls the host makes on one Presets value
MaxDepth == 2      \* apply calls nested in one another, the host's not counted

VARIABLES
  calls,           \* the loadPreset calls of the pass, in dispatch order
  topKids,         \* the calls of the level-0 loadPresets list, in input order
  pass,            \* getPresets: "loading" | "resolved" | "rejected"
  loadedPresets,   \* the list getPresets obtained from loadPresets
  settled,         \* calls in the order their promises settled
  presets,         \* the LoadedPreset list applyPresets is bound to
  frames,          \* the applyPresets calls: the host's and the nested ones
  invoked,         \* every call of a function contribution, with its first argument
  addon,           \* one addon name under resolution: probe outcomes and both results
  presetsConfig,   \* one loadAllPresets call: its three lists, what it loads, its warning
  context,         \* the options one fold is called with, and the contexts it built
  script           \* one execution of the bundler script (run and its catch)

loadVars == <<calls, topKids, pass, loadedPresets, settled>>
applyVars == <<presets, frames, invoked>>
otherVars == <<context, script>>
vars == <<calls, topKids, pass, loadedPresets, settled, presets, frames, invoked,
          addon, presetsConfig, context, script>>

(* --------------------------- specifiers -------------------------------- *)
\* A specifier as loadPreset receives it.  type: "plain" (a string or a
\* {name, options} object), or what `map' made of an addon entry: "presets" or
\* "virtual".  circular: JSON.stringify(input) throws (self-referential options).
Specifier == [type : {"plain", "presets", "virtual"}, circular : BOOLEAN]
PlainSpecifier == [type : {"plain"}, circular : BOOLEAN]

\* One entry of an `addons' list with what resolveAddonName yields for it.
AddonItem == [res : {"unresolved", "presets", "virtual"}, circular : BOOLEAN]

SeqUpTo(S, k) == UNION {[1..m -> S] : m \in 0..k}

NoContents == [kind |-> "none", presets |-> <<>>, addons |-> <<>>]

\* Contents that make loadPreset throw inside its try block.
FaultKinds == {"loadThrows", "factoryThrows", "notValid", "subListThrows"}


(* ------------------------------ helpers -------------------------------- *)
RECURSIVE loadPresetsResult(_, _)
Settled == {"returned", "caught", "rejected"}
Awaiting == {"awaitArray", "awaitPresets", "awaitAddons"}

Range(s) == {s[i] : i \in 1..Len(s)}

\* The LoadedPreset record {name, preset, options} a call appends for itself; the
\* call's number stands for its name.
Entry(n) == [name |-> n]

NewCall(spec, level, parent) ==
  [input |-> spec, level |-> level, parent |-> parent, status |-> "loading",
   contents |-> NoContents, kidsP |-> <<>>, kidsA |-> <<>>, result |-> <<>>]

\* map (lines 451-477): an addon entry becomes {options, ...resolved}, or undefined
\* when resolveAddonName throws or resolves nothing.
Undefined == [type |-> "undefined", circular |-> FALSE]
map(item) ==
  IF item.res = "unresolved" THEN Undefined
  ELSE [type |-> item.res, circular |-> item.circular]

\* subAddons.map(map(storybookOptions)).filter(Boolean)  (line 521)
mapAddons(items) ==
  SelectSeq([i \in 1..Len(items) |-> map(items[i])], LAMBDA x : x # Undefined)

\* calls not yet dispatched that contents already loaded will need (the addons of
\* a call still awaiting its presets)
Reserved(cs) ==
  LET RECURSIVE sum(_)
      sum(i) == IF i = 0 THEN 0
                ELSE sum(i - 1) + (IF cs[i].status = "awaitPresets"
                                   THEN Len(mapAddons(cs[i].contents.addons)) ELSE 0)
  IN Len(cs) + sum(Len(cs))

\* What `await getContent(input)', the factory call and resolvePresetFunction can
\* yield for call n (lines 479-487, 500-516).  A virtual specifier is never
\* imported: its contents is the resolved shape, a keyed structure whose presets
\* is absent or [{name: presetFile, options}] with the addon's own options.
ContentsFor(cs, n) ==
  LET room == MaxCalls - Reserved(cs)
      deep == cs[n].level >= MaxLevel
      fits(c) == LET need == Len(c.presets) + Len(mapAddons(c.addons))
                 IN need <= room /\ (deep => need = 0)
  IN IF cs[n].input.type = "virtual"
     THEN {c \in [kind : {"keyed"}, presets : SeqUpTo(PlainSpecifier, 1), addons : {<<>>}] :
             /\ fits(c)
             /\ \A i \in 1..Len(c.presets) : c.presets[i].circular = cs[n].input.circular}
     ELSE [kind : FaultKinds, presets : {<<>>}, addons : {<<>>}]
          \cup {c \in [kind : {"array"}, presets : SeqUpTo(PlainSpecifier, MaxSub),
                        addons : {<<>>}] : fits(c)}
          \cup {c \in [kind : {"keyed"}, presets : SeqUpTo(PlainSpecifier, MaxSub),
                        addons : SeqUpTo(AddonItem, MaxSub)] : fits(c)}

(* ------------------------------ loadPresets ---------------------------- *)
\* Position of call k in the order of settlement (0: not settled).
SettledAt(k) ==
  IF \E i \in 1..Len(settled) : settled[i] = k
  THEN CHOOSE i \in 1..Len(settled) : settled[i] = k
  ELSE 0

\* A gather that appends each list as its promise settles, not in input order.
loadPresetsAsSettled(cs, kids) ==
  LET RECURSIVE cat(_)
      cat(i) == IF i = 0 THEN <<>>
                ELSE cat(i - 1) \o (IF \E j \in 1..Len(kids) : kids[j] = settled[i]
                                     THEN cs[settled[i]].result ELSE <<>>)
  IN cat(Len(settled))

\* The reduce of lines 563-565: the lists of the kids, concatenated in the order
\* of the input list.
loadPresetsResult(cs, kids) ==
  IF kids = <<>> THEN <<>>
  ELSE cs[Head(kids)].result \o loadPresetsResult(cs, Tail(kids))

\* presets.map(async (preset) => loadPreset(preset, level, ...)): every element
\* of the list becomes a call, all dispatched before any of them resumes.
loadPresetsDispatch(cs, specs, level, parent) ==
  cs \o [i \in 1..Len(specs) |-> NewCall(specs[i], level, parent)]

NewKids(cs, specs) == [i \in 1..Len(specs) |-> Len(cs) + i]

(* ------------------------------ loadPreset ----------------------------- *)
Settle(cs, n, status, result) ==
  [cs EXCEPT ![n].status = status, ![n].result = result]

\* The catch block (lines 536-545): the warning text is built with
\* JSON.stringify(input), which throws on a self-referential input; the throw
\* leaves the catch block and rejects the promise of loadPreset.  Otherwise [].
catch(cs, n) ==
  IF cs[n].input.circular
  THEN Settle(cs, n, "rejected", <<>>)
  ELSE Settle(cs, n, "caught", <<>>)

\* The array literal with the specifier's own entry put first.
loadPresetOwnFirst(cs, n) ==
  <<Entry(n)>> \o loadPresetsResult(cs, cs[n].kidsP)
    \o loadPresetsResult(cs, cs[n].kidsA)

\* The array literal returned for a keyed structure (lines 518-530).
loadPresetReturn(cs, n) ==
  loadPresetsResult(cs, cs[n].kidsP) \o loadPresetsResult(cs, cs[n].kidsA)
    \o <<Entry(n)>>

\* Second element of the array literal (lines 520-524): map the addons, drop the
\* unresolved, load the rest; an empty list loads to [] at once.
loadAddons(cs, n) ==
  LET specs == mapAddons(cs[n].contents.addons)
  IN IF specs = <<>>
     THEN Settle(cs, n, "returned", loadPresetReturn(cs, n))
     ELSE [loadPresetsDispatch(cs, specs, cs[n].level + 1, n)
             EXCEPT ![n].status = "awaitAddons", ![n].kidsA = NewKids(cs, specs)]

\* loadPreset from the resumption of `await getContent(input)' to its next
\* suspension or its return (lines 500-535).
loadPreset(cs, n, c) ==
  LET cs0 == [cs EXCEPT ![n].contents = c]
  IN CASE c.kind \in FaultKinds -> catch(cs0, n)
       [] c.kind = "array" ->
            IF c.presets = <<>>
            THEN Settle(cs0, n, "returned", <<>>)
            ELSE [loadPresetsDispatch(cs0, c.presets, cs[n].level + 1, n)
                    EXCEPT ![n].status = "awaitArray",
                           ![n].kidsP = NewKids(cs0, c.presets)]
       [] c.kind = "keyed" ->
            IF c.presets = <<>>
            THEN loadAddons(cs0, n)
            ELSE [loadPresetsDispatch(cs0, c.presets, cs[n].level + 1, n)
                    EXCEPT ![n].status = "awaitPresets",
                           ![n].kidsP = NewKids(cs0, c.presets)]

\* The kids call n is awaiting, and Promise.all over them.
CurrentKids(cs, n) == IF cs[n].status = "awaitAddons" THEN cs[n].kidsA ELSE cs[n].kidsP
AllFulfilled(cs, kids) == \A k \in Range(kids) : cs[k].status \in {"returned", "caught"}
SomeRejected(cs, kids) == \E k \in Range(kids) : cs[k].status = "rejected"

NoteSettled(n) ==
  settled' = IF calls'[n].status \in Settled THEN Append(settled, n) ELSE settled

(* ------------------------------- actions -------------------------------- *)
\* Calls k and n belong to the list of one loadPresets call.
SameList(cs, k, n) ==
  /\ cs[k].parent = cs[n].parent
  /\ cs[n].parent # 0 =>
       ((\E i \in 1..Len(cs[cs[n].parent].kidsP) : cs[cs[n].parent].kidsP[i] = k)
          <=> (\E i \in 1..Len(cs[cs[n].parent].kidsP) : cs[cs[n].parent].kidsP[i] = n))

\* A loadPresets that loads its list one specifier after the other.
RunnableInTurn(cs, n) ==
  /\ cs[n].status = "loading"
  /\ \A k \in 1..(n - 1) : SameList(cs, k, n) => cs[k].status \in Settled

\* presets.map(async (preset) => loadPreset(...)) (lines 559-561): every call
\* of the list is started by the map, so call n can resume from its
\* `await getContent(input)' whatever the state of its siblings.
Runnable(cs, n) == cs[n].status = "loading"

\* `await getContent(input)' resumes in call n.
LoadContents(n) ==
  /\ Runnable(calls, n)
  /\ \E c \in ContentsFor(calls, n) : calls' = loadPreset(calls, n, c)
  /\ NoteSettled(n)
  /\ UNCHANGED <<topKids, pass, loadedPresets, applyVars, addon, presetsConfig, otherVars>>

\* `return await loadPresets(subPresets, ...)' (line 509) resumes.
SubPresetsLoaded(n) ==
  /\ calls[n].status = "awaitArray"
  /\ AllFulfilled(calls, calls[n].kidsP)
  /\ calls' = Settle(calls, n, "returned", loadPresetsResult(calls, calls[n].kidsP))
  /\ NoteSettled(n)
  /\ UNCHANGED <<topKids, pass, loadedPresets, applyVars, addon, presetsConfig, otherVars>>

\* The await of line 519 resumes: the addons are mapped and loaded.
PresetsLoaded(n) ==
  /\ calls[n].status = "awaitPresets"
  /\ AllFulfilled(calls, calls[n].kidsP)
  /\ calls' = loadAddons(calls, n)
  /\ NoteSettled(n)
  /\ UNCHANGED <<topKids, pass, loadedPresets, applyVars, addon, presetsConfig, otherVars>>

\* The await of line 520 resumes: the keyed structure returns its list.
AddonsLoaded(n) ==
  /\ calls[n].status = "awaitAddons"
  /\ AllFulfilled(calls, calls[n].kidsA)
  /\ calls' = Settle(calls, n, "returned", loadPresetReturn(calls, n))
  /\ NoteSettled(n)
  /\ UNCHANGED <<topKids, pass, loadedPresets, applyVars, addon, presetsConfig, otherVars>>

\* An awaited loadPresets rejected (Promise.all rejects with its first rejected
\* element): the await throws inside the try block of call n.
NestedLoadRejects(n) ==
  /\ calls[n].status \in Awaiting
  /\ SomeRejected(calls, CurrentKids(calls, n))
  /\ calls' = catch(calls, n)
  /\ NoteSettled(n)
  /\ UNCHANGED <<topKids, pass, loadedPresets, applyVars, addon, presetsConfig, otherVars>>

\* getPresets (lines 623-633): `await loadPresets(presets, 0, ...)' resumes.
getPresetsResolves ==
  /\ pass = "loading"
  /\ AllFulfilled(calls, topKids)
  /\ loadedPresets' = loadPresetsResult(calls, topKids)
  /\ pass' = "resolved"
  /\ UNCHANGED <<calls, topKids, settled, applyVars, addon, presetsConfig, otherVars>>

getPresetsRejects ==
  /\ pass = "loading"
  /\ SomeRejected(calls, topKids)
  /\ pass' = "rejected"
  /\ UNCHANGED <<calls, topKids, loadedPresets, settled, applyVars, addon, presetsConfig, otherVars>>

LoadInit ==
  /\ \E specs \in SeqUpTo(PlainSpecifier, MaxTop) :
        /\ calls = loadPresetsDispatch(<<>>, specs, 0, 0)
        /\ topKids = NewKids(<<>>, specs)
  /\ pass = "loading"
  /\ loadedPresets = <<>>
  /\ settled = <<>>
  /\ presets = <<>> /\ frames = <<>> /\ invoked = {}
  /\ addon = <<>> /\ presetsConfig = <<>>
  /\ context = <<>> /\ script = <<>>

LoadNext ==
  \/ \E n \in 1..Len(calls) : LoadContents(n)
  \/ \E n \in 1..Len(calls) : SubPresetsLoaded(n)
  \/ \E n \in 1..Len(calls) : PresetsLoaded(n)
  \/ \E n \in 1..Len(calls) : AddonsLoaded(n)
  \/ \E n \in 1..Len(calls) : NestedLoadRejects(n)
  \/ getPresetsResolves
  \/ getPresetsRejects

SpecLoad == LoadInit /\ [][LoadNext]_vars

(* --------------------- properties of the load pass --------------------- *)
CallIds == 1..Len(calls)
Returned(n) == calls[n].status = "returned"
Keyed(n) == calls[n].contents.kind = "keyed"

\* Sum of the lengths of the lists of the first i kids.
RECURSIVE LenBefore(_, _)
LenBefore(kids, i) ==
  IF i = 0 THEN 0 ELSE LenBefore(kids, i - 1) + Len(calls[kids[i]].result)

\* `list' holds the lists of `kids', each as one contiguous block, the blocks in
\* the order of kids, and nothing else.
InInputOrder(list, kids) ==
  /\ Len(list) = LenBefore(kids, Len(kids))
  /\ \A i \in 1..Len(kids) :
        \A j \in 1..Len(calls[kids[i]].result) :
          list[LenBefore(kids, i - 1) + j] = calls[kids[i]].result[j]

\* C3: whatever the order in which the sibling loads of one loadPresets call
\* settle, the list it returns is the concatenation of the siblings' lists in
\* the input order of the specifiers.
C3_InputOrder ==
  /\ pass = "resolved" => InInputOrder(loadedPresets, topKids)
  /\ \A n \in CallIds :
        /\ (Returned(n) /\ calls[n].contents.kind = "array")
              => InInputOrder(calls[n].result, calls[n].kidsP)
        /\ (Returned(n) /\ Keyed(n))
              => InInputOrder(SubSeq(calls[n].result, 1, Len(calls[n].result) - 1),
                              calls[n].kidsP \o calls[n].kidsA)

\* Two top-level siblings with lists of their own settled in the reverse of
\* their input order, and the pass resolved.
C3_Witness ==
  /\ pass = "resolved"
  /\ Len(topKids) = 2
  /\ calls[topKids[1]].result # <<>>
  /\ calls[topKids[2]].result # <<>>
  /\ SettledAt(topKids[2]) < SettledAt(topKids[1])

\* The depth-first, left-to-right, post-order expansion of the tree under call
\* n: the expansions of the presets, of the addons, then the call's own entry;
\* an array has no entry of its own, a call that did not return has none at all.
RECURSIVE PostOrder(_)
PostOrderAll(kids) ==
  LET RECURSIVE cat(_)
      cat(i) == IF i = 0 THEN <<>> ELSE cat(i - 1) \o PostOrder(kids[i])
  IN cat(Len(kids))
PostOrder(n) ==
  IF ~Returned(n) THEN <<>>
  ELSE IF calls[n].contents.kind = "array" THEN PostOrderAll(calls[n].kidsP)
  ELSE PostOrderAll(calls[n].kidsP) \o PostOrderAll(calls[n].kidsA) \o <<Entry(n)>>

Failing(n) == calls[n].contents.kind \in FaultKinds

\* C5: a specifier that fails to resolve or load contributes an empty result,
\* and the entries of every other specifier are kept: a failing call settles
\* fulfilled with the empty list, no call loses its list to the failure of
\* another one, and the pass delivers the lists of the specifiers that loaded.
C5_FailureContained ==
  /\ \A n \in CallIds :
        /\ (Failing(n) /\ calls[n].status \in Settled)
              => (calls[n].status = "caught" /\ calls[n].result = <<>>)
        /\ (calls[n].status \in Settled /\ ~Failing(n)) => Returned(n)
  /\ (\A k \in Range(topKids) : calls[k].status \in Settled)
        => pass # "rejected"

\* C7: a load pass never rejects, whichever specifiers fail at whichever depth.
C7_NeverRejects ==
  /\ pass # "rejected"
  /\ \A n \in CallIds : calls[n].status # "rejected"

Occurrences(list, e) == Cardinality({i \in 1..Len(list) : list[i] = e})

\* C8: the list of a resolved pass holds exactly one entry for every specifier
\* that loaded successfully with keyed contents, none for a sequence and none
\* for a failed one.
C8_OneEntryEach ==
  pass = "resolved" =>
    \A n \in CallIds :
      Occurrences(loadedPresets, Entry(n)) =
        (IF calls[n].status = "returned" /\ Keyed(n) THEN 1 ELSE 0)

(* ============================ applyPresets ============================= *)
(* One applyPresets call is a frame: the promise chain presets.reduce builds *)
(* (one link per preset whose contribution is truthy), then run link by     *)
(* link.  Values are held by reference, so that a write to the seed or to a *)
(* contribution of a preset would show.                                     *)
(***************************************************************************)
NoObj == [k \in {} |-> 0]
Arr(s) == [t |-> "arr", arr |-> s, obj |-> NoObj, num |-> 0]
Obj(o) == [t |-> "obj", arr |-> <<>>, obj |-> o, num |-> 0]
Num(n) == [t |-> "num", arr |-> <<>>, obj |-> NoObj, num |-> n]
Undef == [t |-> "undef", arr |-> <<>>, obj |-> NoObj, num |-> 0]

\* isObject (lines 245-246) and Array.isArray
isObject(v) == v.t = "obj"
isArray(v) == v.t = "arr"

\* What a preset holds under an extension key: nothing, a plain value, or a
\* function.  The functions are side-effect free:
\*   touch    (cfg) => a copy of cfg with one more element / key
\*   defer    the same, returned as a promise that resolves later
\*   throws   throws when called
\*   rejects  returns a promise that rejects later
\*   nested   async (cfg, {presets}) => [...cfg, ...(await presets.apply("other", []))]
Absent == [kind |-> "absent", val |-> Undef, fn |-> "none"]
Plain(v) == [kind |-> "val", val |-> v, fn |-> "none"]
Fn(name) == [kind |-> "fn", val |-> Undef, fn |-> name]

FnKinds == {"touch", "defer", "throws", "rejects", "nested"}
ExtContributions ==
  {Absent, Plain(Arr(<<1>>)), Plain(Arr(<<2>>)), Plain(Obj("a" :> 1))}
    \cup {Fn(k) : k \in FnKinds}
OtherContributions == {Absent, Plain(Arr(<<2>>)), Fn("throws")}
Seeds == {Arr(<<>>), Obj(NoObj)}
Keys == {"ext", "other"}

\* A test that lets every preset through, with or without the key.
TruthyAll(c) == TRUE

\* A test that lets only non-callable values through.
TruthyPlainOnly(c) ==
  c.kind = "val" /\ (c.val.t \in {"arr", "obj"} \/ (c.val.t = "num" /\ c.val.num # 0))

\* `if (!change)' (line 584): JavaScript truthiness of the contribution.
Truthy(c) ==
  \/ c.kind = "fn"
  \/ c.kind = "val" /\ (c.val.t \in {"arr", "obj"} \/ (c.val.t = "num" /\ c.val.num # 0))

\* References: the seed object of the frame, the contribution object of the
\* preset at pos, an object made during the fold, the reason of a rejection
\* raised by the function of the preset at pos, or nothing yet.
SeedRef == [at |-> "seed", pos |-> 0, v |-> Undef]
PresetRef(i) == [at |-> "preset", pos |-> i, v |-> Undef]
Own(v) == [at |-> "own", pos |-> 0, v |-> v]
Fault(i) == [at |-> "fault", pos |-> i, v |-> Undef]
NoRef == [at |-> "none", pos |-> 0, v |-> Undef]

Deref(f, r) ==
  CASE r.at = "seed" -> frames[f].seed
    [] r.at = "preset" -> presets[r.pos].preset[frames[f].ext].val
    [] r.at = "own" -> r.v
    [] OTHER -> Undef

PendingLink == [st |-> "pending", ran |-> FALSE, val |-> NoRef]

\* A nested apply that folds only the presets before the calling one.
applyPresetsBeforeCaller(extension, config, caller, callerLink) ==
  LET last == IF caller = 0 THEN Len(presets)
              ELSE frames[caller].chain[callerLink] - 1
      chain == SelectSeq([i \in 1..last |-> i],
                         LAMBDA i : Truthy(presets[i].preset[extension]))
  IN [ext |-> extension, seed |-> config, caller |-> caller, callerLink |-> callerLink,
      chain |-> chain, links |-> [j \in 1..Len(chain) |-> PendingLink]]

\* applyPresets (lines 568-619) up to its return: presetResult and the chain of
\* `then' links, one per preset whose change is truthy (lines 581-586).
applyPresets(extension, config, caller, callerLink) ==
  LET chain == SelectSeq([i \in 1..Len(presets) |-> i],
                         LAMBDA i : Truthy(presets[i].preset[extension]))
  IN [ext |-> extension, seed |-> config, caller |-> caller, callerLink |-> callerLink,
      chain |-> chain, links |-> [j \in 1..Len(chain) |-> PendingLink]]

\* A call that resolves to undefined when no preset contributed.
FrameResultNoSeed(fr) ==
  IF fr.links = <<>> THEN [st |-> "fulfilled", ran |-> FALSE, val |-> Own(Undef)]
  ELSE fr.links[Len(fr.links)]

\* The promise applyPresets returned: presetResult for an empty chain (lines
\* 575-579), else the last link.
FrameResult(fr) ==
  IF fr.links = <<>> THEN [st |-> "fulfilled", ran |-> FALSE, val |-> SeedRef]
  ELSE fr.links[Len(fr.links)]

Change(f, j) == presets[frames[f].chain[j]].preset[frames[f].ext]

\* A chain whose handler runs as soon as the previous handler was called.
ReadyWhenStarted(f, j) == IF j = 1 THEN TRUE ELSE frames[f].links[j - 1].ran

\* accumulationPromise.then(handler): the handler of link j runs once the
\* previous promise is fulfilled (lines 604, 609).
Ready(f, j) == IF j = 1 THEN TRUE ELSE frames[f].links[j - 1].st = "fulfilled"

\* A handler that is handed the seed instead of the accumulated value.
PrevRefSeed(f, j) == SeedRef

\* newConfig: the value the previous promise was fulfilled with.
PrevRef(f, j) == IF j = 1 THEN SeedRef ELSE frames[f].links[j - 1].val

\* A rejection that is caught and replaced by the seed.
propagateSwallowed(prev) == [st |-> "fulfilled", ran |-> FALSE, val |-> SeedRef]

\* `then' without a rejection handler: the link takes the rejection over.
propagate(prev) == [st |-> "rejected", ran |-> FALSE, val |-> prev.val]

concatReversed(x, y) == y \o x

\* [...newConfig, ...change]  (line 611)
concat(x, y) == x \o y

\* A spread in which the keys of newConfig win.
spreadAccWins(x, y) ==
  [k \in (DOMAIN x) \cup (DOMAIN y) |-> IF k \in DOMAIN x THEN x[k] ELSE y[k]]

\* { ...newConfig, ...change }  (line 614)
spread(x, y) ==
  [k \in (DOMAIN x) \cup (DOMAIN y) |-> IF k \in DOMAIN y THEN y[k] ELSE x[k]]

\* A merge that pushes the change onto newConfig itself.
mergeInPlace(f, a, i) ==
  LET x == Deref(f, a)
      y == presets[i].preset[frames[f].ext].val
      same == [val |-> PresetRef(i), seed |-> frames[f].seed, presets |-> presets]
  IN IF isArray(x) /\ isArray(y)
     THEN LET z == Arr(concat(x.arr, y.arr))
          IN CASE a.at = "seed" -> [same EXCEPT !.val = a, !.seed = z]
               [] a.at = "preset" ->
                    [same EXCEPT !.val = a,
                                 !.presets[a.pos].preset[frames[f].ext].val = z]
               [] OTHER -> [same EXCEPT !.val = Own(z)]
     ELSE IF isObject(x) /\ isObject(y)
     THEN [same EXCEPT !.val = Own(Obj(spread(x.obj, y.obj)))]
     ELSE same

\* The handler of a non-callable change (lines 609-617): the new accumulator,
\* with what the handler leaves of the seed and of the preset list.
merge(f, a, i) ==
  LET x == Deref(f, a)
      y == presets[i].preset[frames[f].ext].val
      same == [val |-> PresetRef(i), seed |-> frames[f].seed, presets |-> presets]
  IN IF isArray(x) /\ isArray(y)
     THEN [same EXCEPT !.val = Own(Arr(concat(x.arr, y.arr)))]
     ELSE IF isObject(x) /\ isObject(y)
     THEN [same EXCEPT !.val = Own(Obj(spread(x.obj, y.obj)))]
     ELSE same

\* The function contributions, as functions of their first argument.
touch(v) ==
  CASE isArray(v) -> Arr(Append(v.arr, 7))
    [] isObject(v) -> Obj(spread(v.obj, "touched" :> 1))
    [] OTHER -> v
nestedReturn(v, inner) ==
  IF isArray(v) /\ isArray(inner) THEN Arr(v.arr \o inner.arr) ELSE touch(v)

\* The function contributions that call the apply they are handed, and the
\* key they call it with: nested asks for "other", back asks for "ext", self
\* asks for the key it contributes to.
NestingFns == {"nested", "back", "self"}

\* A contribution that asks for "other" whatever its own key.
NestedKeyOther(fn, ext) == "other"

NestedKey(fn, ext) ==
  CASE fn = "nested" -> "other"
    [] fn = "back" -> "ext"
    [] OTHER -> ext

\* Number of apply calls frame f is nested in.
RECURSIVE Depth(_)
Depth(f) == IF frames[f].caller = 0 THEN 0 ELSE 1 + Depth(frames[f].caller)

SetLink(f, j, l) == [frames EXCEPT ![f].links[j] = l]
Done(st, r) == [st |-> st, ran |-> TRUE, val |-> r]

(* ------------------------------- actions -------------------------------- *)
HostFrames == {f \in 1..Len(frames) : frames[f].caller = 0}

FrameSettled(fr) == FrameResult(fr).st \in {"fulfilled", "rejected"}

\* The host calls apply(extension, config) on the value getPresets returned
\* (lines 629-632), one call after the other.
Apply(extension, config) ==
  /\ pass = "resolved"
  /\ Cardinality(HostFrames) < MaxApplies
  /\ \A f \in 1..Len(frames) : FrameSettled(frames[f])
  /\ frames' = Append(frames, applyPresets(extension, config, 0, 0))
  /\ UNCHANGED <<presets, invoked, loadVars, addon, presetsConfig, otherVars>>

\* The handler of link j of frame f runs (lines 604-606 or 609-617).
Invoke(f, j) ==
  LET i == frames[f].chain[j]
      change == Change(f, j)
      a == PrevRef(f, j)
      arg == Deref(f, a)
  IN /\ frames[f].links[j].st = "pending"
     /\ Ready(f, j)
     /\ (change.kind = "fn" /\ change.fn \in NestingFns) => Depth(f) < MaxDepth
     /\ IF change.kind = "fn"
        THEN /\ invoked' = invoked \cup {[frame |-> f, pos |-> i, arg |-> arg]}
             /\ presets' = presets
             /\ CASE change.fn = "touch" ->
                       frames' = SetLink(f, j, Done("fulfilled", Own(touch(arg))))
                  [] change.fn = "throws" ->
                       frames' = SetLink(f, j, Done("rejected", Fault(i)))
                  [] change.fn \in {"defer", "rejects"} ->
                       frames' = SetLink(f, j, Done("running", NoRef))
                  [] change.fn \in NestingFns ->
                       frames' = Append(SetLink(f, j, Done("running", NoRef)),
                                        applyPresets(NestedKey(change.fn, frames[f].ext),
                                                     Arr(<<>>), f, j))
        ELSE LET r == merge(f, a, i)
             IN /\ frames' = [SetLink(f, j, Done("fulfilled", r.val)) EXCEPT ![f].seed = r.seed]
                /\ presets' = r.presets
                /\ invoked' = invoked
     /\ UNCHANGED <<loadVars, addon, presetsConfig, otherVars>>

\* The promise a function contribution returned settles.
Settles(f, j) ==
  /\ frames[f].links[j].st = "running"
  /\ Change(f, j).fn \in {"defer", "rejects"}
  /\ frames' = SetLink(f, j,
        IF Change(f, j).fn = "defer"
        THEN Done("fulfilled", Own(touch(Deref(f, PrevRef(f, j)))))
        ELSE Done("rejected", Fault(frames[f].chain[j])))
  /\ UNCHANGED <<presets, invoked, loadVars, addon, presetsConfig, otherVars>>

\* The nested apply a function contribution awaits settles, and with it the
\* promise of the contribution.
NestedSettles(f, j) ==
  /\ frames[f].links[j].st = "running"
  /\ Change(f, j).fn \in NestingFns
  /\ \E g \in 1..Len(frames) :
       /\ frames[g].caller = f /\ frames[g].callerLink = j
       /\ LET res == FrameResult(frames[g])
          IN /\ res.st \in {"fulfilled", "rejected"}
             /\ frames' = SetLink(f, j,
                  IF res.st = "rejected" THEN Done("rejected", res.val)
                  ELSE Done("fulfilled",
                            Own(nestedReturn(Deref(f, PrevRef(f, j)), Deref(g, res.val)))))
  /\ UNCHANGED <<presets, invoked, loadVars, addon, presetsConfig, otherVars>>

\* The previous promise is rejected: link j never runs its handler.
Rejected(f, j) ==
  /\ j > 1
  /\ frames[f].links[j].st = "pending"
  /\ frames[f].links[j - 1].st = "rejected"
  /\ frames' = SetLink(f, j, propagate(frames[f].links[j - 1]))
  /\ UNCHANGED <<presets, invoked, loadVars, addon, presetsConfig, otherVars>>

PresetShapes == [ext : ExtContributions, other : OtherContributions]

ApplyInit ==
  /\ \E shapes \in SeqUpTo(PresetShapes, MaxPresets) :
       presets = [i \in 1..Len(shapes) |->
                    [name |-> i, preset |-> shapes[i], options |-> i]]
  /\ frames = <<>>
  /\ invoked = {}
  /\ calls = <<>> /\ topKids = <<>> /\ pass = "resolved"
  /\ loadedPresets = <<>> /\ settled = <<>>
  /\ addon = <<>> /\ presetsConfig = <<>>
  /\ context = <<>> /\ script = <<>>

ApplyNext ==
  \/ \E k \in Keys, c \in Seeds : Apply(k, c)
  \/ \E f \in 1..Len(frames) : \E j \in 1..Len(frames[f].links) : Invoke(f, j)
  \/ \E f \in 1..Len(frames) : \E j \in 1..Len(frames[f].links) : Settles(f, j)
  \/ \E f \in 1..Len(frames) : \E j \in 1..Len(frames[f].links) : NestedSettles(f, j)
  \/ \E f \in 1..Len(frames) : \E j \in 1..Len(frames[f].links) : Rejected(f, j)

SpecApply == ApplyInit /\ [][ApplyNext]_vars

(* ------------------------ properties of the fold ----------------------- *)
FrameIds == 1..Len(frames)
LinkIds(f) == 1..Len(frames[f].links)
Link(f, j) == frames[f].links[j]

\* C1: in one apply call the contribution of a later preset is invoked only
\* after every earlier contribution has produced its result (its promise is
\* fulfilled), and no two contributions of the call are in progress at once.
C1_Sequential ==
  \A f \in FrameIds :
    /\ \A j \in LinkIds(f) :
         Link(f, j).ran => \A i \in 1..(j - 1) : Link(f, i).st = "fulfilled"
    /\ Cardinality({j \in LinkIds(f) : Link(f, j).st = "running"}) <= 1

\* A function contribution was invoked after the deferred result of the
\* function contribution before it.
C1_Witness ==
  \E f \in FrameIds : \E j \in LinkIds(f) :
    /\ j > 1
    /\ Link(f, j).ran /\ Change(f, j).kind = "fn"
    /\ Change(f, j - 1).fn \in {"defer", "nested"}

FaultVal == [t |-> "fault", arr |-> <<>>, obj |-> NoObj, num |-> 0]

\* The fold of the contributions for `ext' of the presets 1..n, from `seed'.
RECURSIVE Fold(_, _, _)
Fold(ext, seed, n) ==
  IF n = 0 THEN seed
  ELSE LET acc == Fold(ext, seed, n - 1)
           c == presets[n].preset[ext]
       IN IF acc.t = "fault" \/ ~Truthy(c) THEN acc
          ELSE IF c.kind = "fn"
          THEN CASE c.fn \in {"touch", "defer"} -> touch(acc)
                 [] c.fn \in {"throws", "rejects"} -> FaultVal
                 [] OTHER -> LET inner == Fold("other", Arr(<<>>), Len(presets))
                             IN IF inner.t = "fault" THEN FaultVal
                                ELSE nestedReturn(acc, inner)
          ELSE IF isArray(acc) /\ isArray(c.val) THEN Arr(acc.arr \o c.val.arr)
          ELSE IF isObject(acc) /\ isObject(c.val)
          THEN Obj([k \in (DOMAIN acc.obj) \cup (DOMAIN c.val.obj) |->
                      IF k \in DOMAIN c.val.obj THEN c.val.obj[k] ELSE acc.obj[k]])
          ELSE c.val

\* C2: the first argument of the function contribution of the preset at
\* position i is the fold, from the seed, of the contributions of the presets
\* strictly before i.
C2_AccumulatorArg ==
  \A r \in invoked :
    r.arg = Fold(frames[r.frame].ext, frames[r.frame].seed, r.pos - 1)

\* A function contribution was called with an accumulator that an earlier
\* preset had changed.
C2_Witness ==
  \E r \in invoked : r.pos > 1 /\ r.arg # frames[r.frame].seed

\* C6: when a function contribution throws or its promise rejects, no later
\* contribution of the call is applied, every later link and the promise
\* returned to the caller reject with that fault, and a contribution awaiting a
\* nested apply that rejected rejects with the same fault.
C6_FaultAborts ==
  \A f \in FrameIds :
    /\ \A j \in LinkIds(f) :
         (Link(f, j).st = "rejected" /\ Link(f, j).ran) =>
           /\ \A i \in (j + 1)..Len(frames[f].links) :
                /\ ~Link(f, i).ran
                /\ Link(f, i).st \in {"pending", "rejected"}
                /\ Link(f, i).st = "rejected" => Link(f, i).val = Link(f, j).val
           /\ FrameSettled(frames[f]) =>
                /\ FrameResult(frames[f]).st = "rejected"
                /\ FrameResult(frames[f]).val = Link(f, j).val
           /\ Link(f, j).val.at = "fault"
    /\ (frames[f].caller # 0 /\ FrameResult(frames[f]).st = "rejected")
         => LET l == Link(frames[f].caller, frames[f].callerLink)
            IN l.st \in {"running", "rejected"}
               /\ (l.st = "rejected" => l.val = FrameResult(frames[f]).val)

\* A host call rejected by a contribution that is not the last of its chain.
C6_Witness ==
  \E f \in FrameIds : \E j \in LinkIds(f) :
    /\ frames[f].caller = 0
    /\ Link(f, j).st = "rejected" /\ Link(f, j).ran
    /\ j < Len(frames[f].links)
    /\ FrameResult(frames[f]).st = "rejected"

\* C9: no step of an apply call, nested ones included, changes a LoadedPreset
\* record, the order of the list, or the seed of a call.
C9_NoMutation ==
  [][/\ presets' = presets
     /\ \A f \in FrameIds : frames'[f].seed = frames[f].seed]_vars

\* A call that merged a sequence contribution into a sequence seed, and a
\* nested call, have both finished.
C9_Witness ==
  /\ \E f \in FrameIds :
       /\ frames[f].caller = 0 /\ isArray(frames[f].seed)
       /\ frames[f].links # <<>>
       /\ Change(f, 1).kind = "val" /\ isArray(Change(f, 1).val)
       /\ FrameResult(frames[f]).st = "fulfilled"
  /\ \E g \in FrameIds : frames[g].caller # 0 /\ FrameSettled(frames[g])

\* The sequence contributions for `ext' of the presets 1..n, concatenated.
RECURSIVE AllContributions(_, _)
AllContributions(ext, n) ==
  IF n = 0 THEN <<>>
  ELSE AllContributions(ext, n - 1) \o presets[n].preset[ext].val.arr

\* C10: a sequence contribution met by a sequence accumulator yields the
\* accumulator's elements followed by the contribution's; with a sequence seed
\* and presets that all contribute sequences the result is the seed followed by
\* every contribution in list order.
C10_Concat ==
  \A f \in FrameIds :
    /\ \A j \in LinkIds(f) :
         LET prev == Deref(f, PrevRef(f, j))
             c == Change(f, j)
         IN (Link(f, j).st = "fulfilled" /\ c.kind = "val" /\ isArray(c.val)
               /\ isArray(prev))
              => Deref(f, Link(f, j).val) = Arr(prev.arr \o c.val.arr)
    /\ (/\ FrameSettled(frames[f]) /\ isArray(frames[f].seed)
        /\ \A i \in 1..Len(presets) :
             LET c == presets[i].preset[frames[f].ext]
             IN c.kind = "val" /\ isArray(c.val))
         => /\ FrameResult(frames[f]).st = "fulfilled"
            /\ Deref(f, FrameResult(frames[f]).val)
                 = Arr(frames[f].seed.arr \o AllContributions(frames[f].ext, Len(presets)))

\* P1 = {ext: [1]}, P2 = {ext: [2]}, seed []: the result is [1, 2].
C10_Witness ==
  /\ Len(presets) = 2
  /\ presets[1].preset.ext = Plain(Arr(<<1>>))
  /\ presets[2].preset.ext = Plain(Arr(<<2>>))
  /\ \E f \in FrameIds :
       /\ frames[f].ext = "ext" /\ frames[f].seed = Arr(<<>>)
       /\ FrameResult(frames[f]).st = "fulfilled"
       /\ Deref(f, FrameResult(frames[f]).val) = Arr(<<1, 2>>)

(* ------------------- the fold over non-callable values ----------------- *)
\* Presets that hold plain values only: keyed structures, a sequence, a
\* non-zero number and the falsy number 0.
PlainContributions ==
  {Absent, Plain(Arr(<<1>>)), Plain(Obj("a" :> 1)),
   Plain(Obj(("a" :> 2) @@ ("b" :> 3))), Plain(Num(0)), Plain(Num(5))}
PlainShapes == [ext : PlainContributions, other : {Absent}]

FoldInit ==
  /\ \E shapes \in SeqUpTo(PlainShapes, MaxPresets) :
       presets = [i \in 1..Len(shapes) |->
                    [name |-> i, preset |-> shapes[i], options |-> i]]
  /\ frames = <<>>
  /\ invoked = {}
  /\ calls = <<>> /\ topKids = <<>> /\ pass = "resolved"
  /\ loadedPresets = <<>> /\ settled = <<>>
  /\ addon = <<>> /\ presetsConfig = <<>>
  /\ context = <<>> /\ script = <<>>

FoldNext ==
  \/ \E k \in Keys, c \in Seeds : Apply(k, c)
  \/ \E f \in 1..Len(frames) : \E j \in 1..Len(frames[f].links) : Invoke(f, j)

SpecFold == FoldInit /\ [][FoldNext]_vars

\* C11: a keyed contribution met by a keyed accumulator yields their shallow
\* merge: every key of the contribution with the contribution's value, every
\* key of the accumulator alone with the accumulator's value, and no other
\* key; over two presets the later one wins a shared key.
C11_ShallowMerge ==
  \A f \in FrameIds : \A j \in LinkIds(f) :
    LET prev == Deref(f, PrevRef(f, j))
        c == Change(f, j)
        out == Deref(f, Link(f, j).val)
    IN (Link(f, j).st = "fulfilled" /\ c.kind = "val" /\ isObject(c.val)
          /\ isObject(prev))
         => /\ isObject(out)
            /\ DOMAIN out.obj = (DOMAIN prev.obj) \cup (DOMAIN c.val.obj)
            /\ \A k \in DOMAIN c.val.obj : out.obj[k] = c.val.obj[k]
            /\ \A k \in (DOMAIN prev.obj) \ (DOMAIN c.val.obj) : out.obj[k] = prev.obj[k]

\* P1 = {ext: {a: 1}}, P2 = {ext: {a: 2, b: 3}}, seed {}: the result is
\* {a: 2, b: 3}.
C11_Witness ==
  /\ Len(presets) = 2
  /\ presets[1].preset.ext = Plain(Obj("a" :> 1))
  /\ presets[2].preset.ext = Plain(Obj(("a" :> 2) @@ ("b" :> 3)))
  /\ \E f \in FrameIds :
       /\ frames[f].ext = "ext" /\ frames[f].seed = Obj(NoObj)
       /\ FrameResult(frames[f]).st = "fulfilled"
       /\ Deref(f, FrameResult(frames[f]).val) = Obj(("a" :> 2) @@ ("b" :> 3))

\* The accumulator of frame f once the presets 1..i have been passed: the
\* value of the last link of a preset at a position <= i, else the seed.
AccAfter(f, i) ==
  LET js == {j \in LinkIds(f) : frames[f].chain[j] <= i}
  IN IF js = {} THEN frames[f].seed
     ELSE Deref(f, Link(f, CHOOSE j \in js : \A k \in js : k <= j).val)

\* C12: for every non-callable value a preset holds under the extension key,
\* whatever its type or truthiness, when the accumulator and the value are not
\* both sequences and not both keyed structures, the accumulator after that
\* preset is that value.
C12_Replaces ==
  \A f \in FrameIds :
    FrameResult(frames[f]).st = "fulfilled" =>
      \A i \in 1..Len(presets) :
        LET c == presets[i].preset[frames[f].ext]
            prev == AccAfter(f, i - 1)
        IN (/\ c.kind = "val"
            /\ ~(isArray(prev) /\ isArray(c.val))
            /\ ~(isObject(prev) /\ isObject(c.val)))
             => AccAfter(f, i) = c.val

\* C13: an apply over an empty preset list builds no chain, calls nothing and
\* resolves to the seed itself.
C13_EmptyList ==
  Len(presets) = 0 =>
    /\ invoked = {}
    /\ \A f \in FrameIds :
         /\ frames[f].links = <<>>
         /\ FrameResult(frames[f]) = [st |-> "fulfilled", ran |-> FALSE, val |-> SeedRef]
         /\ Deref(f, FrameResult(frames[f]).val) = frames[f].seed

\* The host applied a key with a keyed seed to an empty list.
C13_Witness ==
  /\ Len(presets) = 0
  /\ \E f \in FrameIds : frames[f].caller = 0 /\ frames[f].seed = Obj(NoObj)

(* =========================== resolveAddonName ========================== *)
(* Both resolveAddonName implementations of the file, as functions of what  *)
(* the resolvers answer: lines 326-449 probe the file system themselves,    *)
(* lines 723-780 read the record safeResolveAll hands back.                 *)
(***************************************************************************)
\* A resolved file: its base name, its extension, whether its path holds
\* `node_modules'.  NoFile is the `false' a resolver answers on failure.
File(base, ext, nm) == [base |-> base, ext |-> ext, nm |-> nm]
NoFile == File("", "", FALSE)
Found(f) == f # NoFile
\* a || b
Or(a, b) == IF Found(a) THEN a ELSE b

AddonName == File("addon", "", FALSE)
NoOptions == "undefined"
AddonOptions == {NoOptions, "options"}

\* /\/(manager|register(-panel)?)(\.(js|mjs|ts|tsx|jsx))?$/  (line 341)
matchesManager(f) ==
  /\ f.base \in {"manager", "register", "register-panel"}
  /\ f.ext \in {"", ".js", ".mjs", ".ts", ".tsx", ".jsx"}
\* /\/(preset)(\.(js|mjs|ts|tsx|jsx))?$/  (line 352)
matchesPreset(f) ==
  /\ f.base = "preset"
  /\ f.ext \in {"", ".js", ".mjs", ".ts", ".tsx", ".jsx"}

\* The results, in one shape: `keys' are the optional keys the object has.
NoResult == [type |-> "undefined", name |-> NoFile, keys |-> {},
             managerEntries |-> <<>>, previewAnnotations |-> <<>>, presets |-> <<>>]
PresetsResult(file) == [NoResult EXCEPT !.type = "presets", !.name = file]
Pending == [NoResult EXCEPT !.type = "pending"]

\* A managerEntries list that takes the register file whatever else resolved.
managerEntriesWithRegister(managerFile, registerFile, presetFile) ==
  (IF Found(managerFile) THEN <<managerFile>> ELSE <<>>)
    \o (IF Found(registerFile) THEN <<registerFile>> ELSE <<>>)

\* const managerEntries = []; and its two pushes (lines 414-422, 739-747)
managerEntriesOf(managerFile, registerFile, presetFile) ==
  (IF Found(managerFile) THEN <<managerFile>> ELSE <<>>)
    \o (IF ~Found(managerFile) /\ Found(registerFile) /\ ~Found(presetFile)
        THEN <<registerFile>> ELSE <<>>)

\* An object that carries all three optional keys, empty or not.
virtualKeysAll(managerEntries, previewFile, presetFile) ==
  {"managerEntries", "previewAnnotations", "presets"}

\* The conditional spreads of the returned object (lines 427-437, 752-768)
virtualKeys(managerEntries, previewFile, presetFile) ==
  (IF managerEntries # <<>> THEN {"managerEntries"} ELSE {})
    \cup (IF Found(previewFile) THEN {"previewAnnotations"} ELSE {})
    \cup (IF Found(presetFile) THEN {"presets"} ELSE {})

\* The virtual result (lines 424-438, 749-769); `bare' is what the
\* implementation puts under that key.
VirtualResult(managerEntries, previewFile, previewFileAbsolute, bare, presetFile, options) ==
  [type |-> "virtual", name |-> AddonName,
   keys |-> virtualKeys(managerEntries, previewFile, presetFile),
   managerEntries |-> managerEntries,
   previewAnnotations |->
     IF ~Found(previewFile) THEN <<>>
     ELSE IF Found(previewFileAbsolute)
     THEN <<[form |-> "pair", bare |-> bare, absolute |-> previewFileAbsolute]>>
     ELSE <<[form |-> "path", bare |-> previewFile, absolute |-> NoFile]>>,
   presets |-> IF Found(presetFile) THEN <<[name |-> presetFile, options |-> options]>>
               ELSE <<>>]

\* What the resolvers answer to the first implementation.  `safe' is asked
\* only when both direct resolutions failed, the exports of the preview only
\* when the absolute preview failed (the || of lines 333 and 393).
Envs ==
  {e \in [browser : {NoFile, File("manager", ".js", FALSE), File("index", ".mjs", FALSE)},
          node : {NoFile, File("preset", ".js", FALSE), File("index", ".js", FALSE)},
          safe : {NoFile, File("main", ".json", FALSE)},
          pkg : BOOLEAN,
          manager : {NoFile, File("manager", ".mjs", FALSE)},
          register : {NoFile, File("register", ".js", FALSE),
                      File("register-panel", ".js", FALSE)},
          previewAbsolute : {NoFile, File("preview", ".js", TRUE)},
          previewExports : {NoFile, File("preview", ".mjs", FALSE)},
          preset : {NoFile, File("preset", ".cjs", FALSE)}] :
     /\ (Found(e.browser) \/ Found(e.node)) => ~Found(e.safe)
     /\ Found(e.previewAbsolute) => ~Found(e.previewExports)}

\* resolveAddonName, first implementation (lines 326-449)
resolveAddonName(e, options) ==
  LET resolved == Or(Or(e.browser, e.node), e.safe)
      resolvedNode == e.node
      resolvedBrowser == e.browser
      managerFile == e.manager
      registerFile == e.register
      previewFile == Or(e.previewAbsolute, e.previewExports)
      previewFileAbsolute == e.previewAbsolute
      presetFile == e.preset
  IN IF Found(resolved) /\ Found(resolvedBrowser) /\ matchesManager(resolvedBrowser)
     THEN [NoResult EXCEPT !.type = "virtual", !.name = AddonName,
                           !.keys = {"managerEntries"},
                           !.managerEntries = <<resolvedBrowser>>]
     ELSE IF Found(resolved) /\ Found(resolvedNode) /\ matchesPreset(resolvedNode)
     THEN PresetsResult(resolvedNode)
     ELSE IF ~e.pkg THEN NoResult
     ELSE IF ~(Found(managerFile) \/ Found(previewFile)) /\ Found(presetFile)
     THEN PresetsResult(presetFile)
     ELSE IF Found(managerFile) \/ Found(registerFile) \/ Found(previewFile)
               \/ Found(presetFile)
     THEN VirtualResult(managerEntriesOf(managerFile, registerFile, presetFile),
                        previewFile, previewFileAbsolute, previewFile, presetFile, options)
     ELSE IF Found(resolved) THEN PresetsResult(resolved)
     ELSE NoResult

\* The record safeResolveAll returns, or nothing (lines 728-736).
NotResolved == [none |-> TRUE]
ResolvedAll ==
  [managerFile : {NoFile, File("manager", ".mjs", FALSE)},
   registerFile : {NoFile, File("register", ".js", FALSE)},
   previewFile : {NoFile, File("preview", ".js", TRUE), File("preview", ".mjs", FALSE)},
   previewFileAbsolute : {NoFile, File("preview", ".js", TRUE)},
   presetFile : {NoFile, File("preset", ".cjs", FALSE)},
   fallback : {NoFile, File("main", ".json", FALSE)}]

\* stripAbsNodeModulesPath: the path from the package name on.
stripAbsNodeModulesPath(f) == [f EXCEPT !.nm = FALSE]

\* resolveAddonName, second implementation (lines 723-780)
resolveAddonNameAll(resolved, options) ==
  IF resolved = NotResolved THEN NoResult
  ELSE LET managerFile == resolved.managerFile
           registerFile == resolved.registerFile
           previewFile == resolved.previewFile
           previewFileAbsolute == resolved.previewFileAbsolute
           presetFile == resolved.presetFile
       IN IF Found(managerFile) \/ Found(registerFile) \/ Found(previewFile)
               \/ Found(presetFile)
          THEN VirtualResult(managerEntriesOf(managerFile, registerFile, presetFile),
                             previewFile, previewFileAbsolute,
                             IF previewFile.nm THEN stripAbsNodeModulesPath(previewFile)
                             ELSE previewFile,
                             presetFile, options)
          ELSE IF Found(resolved.fallback) THEN PresetsResult(resolved.fallback)
          ELSE NoResult

\* map calls resolveAddonName(configDir, name, options) (lines 460, 791).
Resolve ==
  /\ addon.result = Pending
  /\ addon' = [addon EXCEPT !.result = resolveAddonName(addon.env, addon.options)]
  /\ UNCHANGED <<loadVars, applyVars, presetsConfig, otherVars>>

ResolveAll ==
  /\ addon.resultAll = Pending
  /\ addon' = [addon EXCEPT !.resultAll = resolveAddonNameAll(addon.all, addon.options)]
  /\ UNCHANGED <<loadVars, applyVars, presetsConfig, otherVars>>

ResolveInit ==
  /\ \E e \in Envs, a \in ResolvedAll \cup {NotResolved}, o \in AddonOptions :
       addon = [env |-> e, all |-> a, options |-> o,
                result |-> Pending, resultAll |-> Pending]
  /\ presetsConfig = <<>>
  /\ context = <<>> /\ script = <<>>
  /\ presets = <<>> /\ frames = <<>> /\ invoked = {}
  /\ calls = <<>> /\ topKids = <<>> /\ pass = "resolved"
  /\ loadedPresets = <<>> /\ settled = <<>>

ResolveNext == Resolve \/ ResolveAll

SpecResolve == ResolveInit /\ [][ResolveNext]_vars

(* -------------------- properties of resolveAddonName ------------------- *)
\* The probe outcomes of the first implementation, under the names the second
\* one reads them by.
ProbesOf(e) ==
  [managerFile |-> e.manager, registerFile |-> e.register,
   previewFile |-> Or(e.previewAbsolute, e.previewExports),
   previewFileAbsolute |-> e.previewAbsolute, presetFile |-> e.preset,
   fallback |-> Or(Or(e.browser, e.node), e.safe)]

\* The first implementation got as far as probing the package: the name did
\* not itself resolve to a manager, register or preset file, and a manifest
\* was found.
Probed(e) ==
  /\ e.pkg
  /\ ~(Found(e.browser) /\ matchesManager(e.browser))
  /\ ~(Found(e.node) /\ matchesPreset(e.node))

PresetOnly(p) ==
  /\ Found(p.presetFile)
  /\ ~Found(p.managerFile) /\ ~Found(p.registerFile) /\ ~Found(p.previewFile)
ManagerOnly(p) ==
  /\ Found(p.managerFile)
  /\ ~Found(p.registerFile) /\ ~Found(p.previewFile) /\ ~Found(p.presetFile)

PresetOnlyFirst ==
  (addon.result # Pending /\ Probed(addon.env) /\ PresetOnly(ProbesOf(addon.env)))
    => addon.result = PresetsResult(addon.env.preset)
PresetOnlyAll ==
  (addon.resultAll # Pending /\ addon.all # NotResolved /\ PresetOnly(addon.all))
    => addon.resultAll = PresetsResult(addon.all.presetFile)

\* C14: for a package of which only the preset file resolves, resolveAddonName
\* returns a result of type "presets" naming that file, never a virtual one;
\* in both implementations.
C14_PresetOnly == PresetOnlyFirst /\ PresetOnlyAll

ManagerVirtual(file) ==
  [NoResult EXCEPT !.type = "virtual", !.name = AddonName,
                   !.keys = {"managerEntries"}, !.managerEntries = <<file>>]

\* C15: for a package of which only the manager file resolves, the result is
\* virtual, its managerEntries is exactly that file, and it has neither a
\* presets nor a previewAnnotations key; in both implementations, and also
\* when the name itself resolves to a manager file.
C15_ManagerOnly ==
  /\ (addon.result # Pending /\ Probed(addon.env) /\ ManagerOnly(ProbesOf(addon.env)))
       => addon.result = ManagerVirtual(addon.env.manager)
  /\ (addon.result # Pending /\ Found(addon.env.browser)
        /\ matchesManager(addon.env.browser))
       => addon.result = ManagerVirtual(addon.env.browser)
  /\ (addon.resultAll # Pending /\ addon.all # NotResolved /\ ManagerOnly(addon.all))
       => addon.resultAll = ManagerVirtual(addon.all.managerFile)

\* Both implementations have answered for a manager-only package.
C15_Witness ==
  /\ Probed(addon.env) /\ ManagerOnly(ProbesOf(addon.env))
  /\ addon.all # NotResolved /\ ManagerOnly(addon.all)
  /\ addon.result.type = "virtual" /\ addon.resultAll.type = "virtual"

\* What C16 asks of a virtual result r composed from the probes p.
VirtualShape(r, p) ==
  r.type = "virtual" =>
    /\ Len(r.managerEntries) <= 1
    /\ Found(p.managerFile) => r.managerEntries = <<p.managerFile>>
    /\ (~Found(p.managerFile) /\ Found(p.registerFile) /\ ~Found(p.presetFile))
         => r.managerEntries = <<p.registerFile>>
    /\ (~Found(p.managerFile) /\ (~Found(p.registerFile) \/ Found(p.presetFile)))
         => r.managerEntries = <<>>
    /\ (Found(p.registerFile) /\ r.managerEntries = <<p.registerFile>>)
         => /\ ~Found(p.managerFile)
            /\ "presets" \notin r.keys /\ r.presets = <<>>
    /\ ("managerEntries" \in r.keys) <=> (r.managerEntries # <<>>)

\* C16: in every virtual result composed from the probes, managerEntries holds
\* at most one file: the manager file when it resolved, otherwise the register
\* file and only when no preset file resolved; the register file never comes
\* with the manager file or with a presets entry; the key is absent when the
\* list is empty.  In both implementations.
C16_ManagerEntries ==
  /\ (addon.result # Pending /\ Probed(addon.env))
       => VirtualShape(addon.result, ProbesOf(addon.env))
  /\ (addon.resultAll # Pending /\ addon.all # NotResolved)
       => VirtualShape(addon.resultAll, addon.all)

\* Register and preview resolve for the first implementation, which lists the
\* register file; register, preview and preset resolve for the second, whose
\* virtual result has no managerEntries key.
C16_Witness ==
  /\ Probed(addon.env)
  /\ addon.result.type = "virtual"
  /\ Found(addon.env.register)
  /\ addon.result.managerEntries = <<addon.env.register>>
  /\ addon.resultAll.type = "virtual"
  /\ Found(addon.all.registerFile) /\ Found(addon.all.presetFile)
  /\ "managerEntries" \notin addon.resultAll.keys
  /\ "presets" \in addon.resultAll.keys

\* C17: given the same probe outcomes the two implementations return the same
\* result type, the same managerEntries, previewAnnotations present in both or
\* in neither, and the same presets entry.
C17_SameResults ==
  (/\ addon.result # Pending /\ addon.resultAll # Pending
   /\ Probed(addon.env) /\ addon.all = ProbesOf(addon.env))
    => /\ addon.result.type = addon.resultAll.type
       /\ addon.result.managerEntries = addon.resultAll.managerEntries
       /\ ("managerEntries" \in addon.result.keys)
            <=> ("managerEntries" \in addon.resultAll.keys)
       /\ ("previewAnnotations" \in addon.result.keys)
            <=> ("previewAnnotations" \in addon.resultAll.keys)
       /\ addon.result.presets = addon.resultAll.presets

(* ============================ loadAllPresets =========================== *)
(* filterPresetsConfig (lines 287-292) and loadAllPresets (lines 635-660), *)
(* up to the list it hands to getPresets.  A name is the sequence of its    *)
(* path segments and separators, so that the regular expression's search   *)
(* for a substring can be followed segment by segment.                     *)
(***************************************************************************)
MaxCore == 1       \* length of corePresets
MaxCustom == 1     \* length of what loadCustomPresets returns
MaxOverride == 1   \* length of overridePresets

Separators == {"/", "\\"}
LegacyName == <<"@storybook", "/", "preset-typescript">>
PresetNames ==
  {LegacyName,
   <<"@storybook", "\\", "preset-typescript">>,
   <<"node_modules", "/", "@storybook", "/", "preset-typescript", "/", "index.js">>,
   <<"@storybook", "/", "preset-typescript-extra">>,
   <<"@storybook", "/", "preset-scss">>,
   <<"my-preset">>}

\* A PresetConfig entry: a string, or an object with or without a name.
StringEntry(n) == [form |-> "string", name |-> n]
ObjectEntry(n) == [form |-> "object", name |-> n]
NoName == <<"undefined">>
PresetConfigs ==
  {StringEntry(n) : n \in PresetNames}
    \cup {ObjectEntry(LegacyName), ObjectEntry(<<"my-preset">>), ObjectEntry(NoName)}

\* the segment ends with "@storybook" / starts with "preset-typescript"
EndsWithScope(seg) == seg \in {"@storybook"}
StartsWithLegacy(seg) == seg \in {"preset-typescript", "preset-typescript-extra"}

\* /@storybook[\\\\/]preset-typescript/.test(presetName)  (line 290): the
\* pattern is not anchored, it is found anywhere in the name.
testLegacy(presetName) ==
  \E i \in 1..(Len(presetName) - 2) :
    /\ EndsWithScope(presetName[i])
    /\ presetName[i + 1] \in Separators
    /\ StartsWithLegacy(presetName[i + 2])

\* typeof preset === 'string' ? preset : preset.name  (line 289)
presetNameOf(preset) == preset.name

\* filterPresetsConfig (lines 287-292)
filterPresetsConfig(list) ==
  SelectSeq(list, LAMBDA preset : ~testLegacy(presetNameOf(preset)))

\* loadAllPresets (lines 635-660): the list, the filter, the warning, and the
\* list getPresets is called with.
loadAllPresets ==
  /\ presetsConfig.phase = "called"
  /\ LET all == presetsConfig.corePresets \o presetsConfig.customPresets
                   \o presetsConfig.overridePresets
         filteredPresetConfig == filterPresetsConfig(all)
     IN presetsConfig' =
          [presetsConfig EXCEPT !.phase = "getPresets",
                                !.warned = Len(filteredPresetConfig) < Len(all),
                                !.loads = filteredPresetConfig]
  /\ UNCHANGED <<loadVars, applyVars, addon, otherVars>>

LoadAllInit ==
  /\ \E core \in SeqUpTo(PresetConfigs, MaxCore),
        custom \in SeqUpTo(PresetConfigs, MaxCustom),
        override \in SeqUpTo(PresetConfigs, MaxOverride) :
       presetsConfig = [phase |-> "called", corePresets |-> core,
                        customPresets |-> custom, overridePresets |-> override,
                        warned |-> FALSE, loads |-> <<>>]
  /\ addon = <<>>
  /\ context = <<>> /\ script = <<>>
  /\ presets = <<>> /\ frames = <<>> /\ invoked = {}
  /\ calls = <<>> /\ topKids = <<>> /\ pass = "loading"
  /\ loadedPresets = <<>> /\ settled = <<>>

LoadAllNext == loadAllPresets

SpecLoadAll == LoadAllInit /\ [][LoadAllNext]_vars

\* The entry names the package @storybook/preset-typescript: the package
\* itself, with either separator, or a path into it.
NamesLegacy(preset) ==
  \E i \in 1..(Len(preset.name) - 2) :
    /\ preset.name[i] = "@storybook"
    /\ preset.name[i + 1] \in Separators
    /\ preset.name[i + 2] = "preset-typescript"

\* C18: loadAllPresets loads core, custom and override specifiers in that
\* order after removing exactly the entries that name
\* @storybook/preset-typescript and nothing else, the others kept in order,
\* and it warns iff at least one entry was removed.
C18_FiltersLegacyOnly ==
  presetsConfig.phase = "getPresets" =>
    LET all == presetsConfig.corePresets \o presetsConfig.customPresets
                  \o presetsConfig.overridePresets
    IN /\ presetsConfig.loads = SelectSeq(all, LAMBDA preset : ~NamesLegacy(preset))
       /\ presetsConfig.warned <=> (\E i \in 1..Len(all) : NamesLegacy(all[i]))

(* ====================== getPresets, then apply ========================= *)
(* getPresets(["addon-a", {name: "addon-b", options: {x: 1}}], options)    *)
(* followed by apply: the load pass of two top-level specifiers, whose     *)
(* list becomes the list applyPresets folds.  Call 1 is addon-a, call 2 is *)
(* addon-b; "ext" stands for webpackFinal, "other" for managerEntries.     *)
(***************************************************************************)
NoRest == [ext |-> Absent, other |-> Absent]

\* addon-a as the host may hand it over: the bare name, or the virtual object
\* resolveAddonName makes of a manager-only package.
AddonA == [type : {"plain", "virtual"}, circular : {FALSE}]
AddonB == [type |-> "plain", circular |-> FALSE]

\* getContent (lines 479-487) for the two specifiers.  A virtual addon-a is
\* not imported: its contents is {managerEntries}.  The bare name addon-a is
\* imported like any preset: the import fails in one of the ways of
\* FaultKinds, or yields a module without webpackFinal.  addon-b yields
\* {webpackFinal}, a plain or an async function.
AddonContents(cs, n) ==
  IF n = 1
  THEN IF cs[n].input.type = "virtual"
       THEN {[kind |-> "keyed", presets |-> <<>>, addons |-> <<>>,
              rest |-> [ext |-> Absent, other |-> Plain(Arr(<<1>>))]]}
       ELSE [kind : FaultKinds \cup {"keyed"}, presets : {<<>>}, addons : {<<>>},
             rest : {NoRest}]
  ELSE [kind : {"keyed"}, presets : {<<>>}, addons : {<<>>},
        rest : {[ext |-> Fn(k), other |-> Absent] : k \in {"touch", "defer"}}]

\* `await getContent(input)' resumes in call n (lines 500-535).
LoadAddon(n) ==
  /\ calls[n].status = "loading"
  /\ \E c \in AddonContents(calls, n) : calls' = loadPreset(calls, n, c)
  /\ NoteSettled(n)
  /\ UNCHANGED <<topKids, pass, loadedPresets, applyVars, addon, presetsConfig, otherVars>>

\* The LoadedPreset records of a loaded list: name, preset (the rest of the
\* contents, line 513) and options (lines 525-529).
LoadedPresets(cs, list) ==
  [i \in 1..Len(list) |->
     [name |-> list[i].name, preset |-> cs[list[i].name].contents.rest,
      options |-> list[i].name]]

\* getPresets returns {apply} bound to the loaded list (lines 627-632).
getPresetsReturns ==
  /\ pass = "loading"
  /\ AllFulfilled(calls, topKids)
  /\ loadedPresets' = loadPresetsResult(calls, topKids)
  /\ presets' = LoadedPresets(calls, loadPresetsResult(calls, topKids))
  /\ pass' = "resolved"
  /\ UNCHANGED <<calls, topKids, settled, frames, invoked, addon, presetsConfig, otherVars>>

EndToEndInit ==
  /\ \E a \in AddonA :
       /\ calls = loadPresetsDispatch(<<>>, <<a, AddonB>>, 0, 0)
       /\ topKids = NewKids(<<>>, <<a, AddonB>>)
  /\ pass = "loading"
  /\ loadedPresets = <<>>
  /\ settled = <<>>
  /\ presets = <<>> /\ frames = <<>> /\ invoked = {}
  /\ addon = <<>> /\ presetsConfig = <<>>
  /\ context = <<>> /\ script = <<>>

EndToEndNext ==
  \/ \E n \in 1..Len(calls) : LoadAddon(n)
  \/ getPresetsReturns
  \/ \E k \in Keys, c \in Seeds : Apply(k, c)
  \/ \E f \in 1..Len(frames) : \E j \in 1..Len(frames[f].links) : Invoke(f, j)
  \/ \E f \in 1..Len(frames) : \E j \in 1..Len(frames[f].links) : Settles(f, j)

SpecEndToEnd == EndToEndInit /\ [][EndToEndNext]_vars

\* C19: with addon-a a manager-only virtual addon and addon-b a preset whose
\* webpackFinal is cfg => {...cfg, touched: true}, the load pass resolves, and
\* apply("webpackFinal", {}) never rejects and resolves to {touched: true};
\* addon-b's function is called once, with the seed {}.
C19_EndToEnd ==
  /\ pass # "rejected"
  /\ \A f \in FrameIds :
       (frames[f].ext = "ext" /\ frames[f].seed = Obj(NoObj)) =>
         /\ FrameResult(frames[f]).st # "rejected"
         /\ FrameResult(frames[f]).st = "fulfilled" =>
              /\ Deref(f, FrameResult(frames[f]).val) = Obj("touched" :> 1)
              /\ {r \in invoked : r.frame = f}
                   = {[frame |-> f, pos |-> Len(presets), arg |-> Obj(NoObj)]}

\* The virtual addon-a and addon-b are both in the list, and the apply for
\* webpackFinal with seed {} is fulfilled.
C19_Witness ==
  /\ calls[1].input.type = "virtual"
  /\ Len(presets) = 2
  /\ \E f \in FrameIds :
       /\ frames[f].ext = "ext" /\ frames[f].seed = Obj(NoObj)
       /\ FrameResult(frames[f]).st = "fulfilled"

(* ------------------- presets without the extension key ----------------- *)
\* The list without the presets that have nothing under ext.
Without(ext) == SelectSeq(presets, LAMBDA p : p.preset[ext].kind # "absent")

\* The fold of the contributions for ext of ps[1..n], from seed, when the
\* apply handed to function contributions is bound to the list `bound'.
RECURSIVE FoldOver(_, _, _, _, _)
FoldOver(ps, bound, ext, seed, n) ==
  IF n = 0 THEN seed
  ELSE LET acc == FoldOver(ps, bound, ext, seed, n - 1)
           c == ps[n].preset[ext]
       IN IF acc.t = "fault" \/ ~Truthy(c) THEN acc
          ELSE IF c.kind = "fn"
          THEN CASE c.fn \in {"touch", "defer"} -> touch(acc)
                 [] c.fn \in {"throws", "rejects"} -> FaultVal
                 [] OTHER ->
                      LET inner == FoldOver(bound, bound, "other", Arr(<<>>), Len(bound))
                      IN IF inner.t = "fault" THEN FaultVal
                         ELSE nestedReturn(acc, inner)
          ELSE IF isArray(acc) /\ isArray(c.val) THEN Arr(acc.arr \o c.val.arr)
          ELSE IF isObject(acc) /\ isObject(c.val)
          THEN Obj([k \in (DOMAIN acc.obj) \cup (DOMAIN c.val.obj) |->
                      IF k \in DOMAIN c.val.obj THEN c.val.obj[k] ELSE acc.obj[k]])
          ELSE c.val

\* What a settled apply call delivered: its value, or a fault.
Delivered(f) ==
  IF FrameResult(frames[f]).st = "rejected" THEN FaultVal
  ELSE Deref(f, FrameResult(frames[f]).val)

\* C20 as stated: the result of an apply over the list equals the result of
\* the same apply over the list with every preset lacking the key removed.
C20_SameAsFiltered ==
  \A f \in FrameIds :
    FrameSettled(frames[f]) =>
      LET kept == Without(frames[f].ext)
      IN Delivered(f) = FoldOver(kept, kept, frames[f].ext, frames[f].seed, Len(kept))

\* C20, amended: a preset with nothing under the key gets no link and leaves
\* the accumulator as it was, and the result of the apply is the fold of the
\* contributions of the presets that have the key, where the function
\* contributions still see the whole list through the apply they are handed.
C20_AbsentSkipped ==
  \A f \in FrameIds :
    /\ \A i \in 1..Len(presets) :
         presets[i].preset[frames[f].ext].kind = "absent" =>
           /\ \A j \in LinkIds(f) : frames[f].chain[j] # i
           /\ AccAfter(f, i) = AccAfter(f, i - 1)
    /\ FrameSettled(frames[f]) =>
         LET kept == Without(frames[f].ext)
         IN Delivered(f) = FoldOver(kept, presets, frames[f].ext, frames[f].seed, Len(kept))

\* P1 = {other: [2]} has nothing under ext, P2 = {ext: nested}: apply("ext", [])
\* is fulfilled with [2], which P2 obtained from P1 through the nested apply.
C20_Witness ==
  /\ Len(presets) = 2
  /\ presets[1].preset.ext = Absent
  /\ presets[1].preset.other = Plain(Arr(<<2>>))
  /\ presets[2].preset.ext = Fn("nested")
  /\ \E f \in FrameIds :
       /\ frames[f].caller = 0 /\ frames[f].ext = "ext"
       /\ FrameResult(frames[f]).st = "fulfilled"
       /\ Delivered(f) = Arr(<<2>>)

(* ------------------------------ nested apply --------------------------- *)
\* C21: the apply handed to a function contribution is bound to the list of
\* the outer call: the nested call chains every preset of the whole list that
\* has the nested key, those after the calling preset included, and what it
\* delivers is the fold of that key over the whole list from its own seed,
\* whatever the accumulator of the outer call and however far that call got.
C21_NestedSameList ==
  \A g \in FrameIds :
    frames[g].caller # 0 =>
      /\ frames[g].chain
           = SelectSeq([i \in 1..Len(presets) |-> i],
                       LAMBDA i : Truthy(presets[i].preset[frames[g].ext]))
      /\ FrameSettled(frames[g]) =>
           Delivered(g) = FoldOver(presets, presets, frames[g].ext, frames[g].seed,
                                   Len(presets))

\* The first preset's function asked for "other" while the outer accumulator
\* was the seed; the nested call delivered the contribution of the second.
C21_Witness ==
  /\ Len(presets) = 2
  /\ presets[1].preset.ext = Fn("nested")
  /\ presets[2].preset.other = Plain(Arr(<<2>>))
  /\ \E g \in FrameIds :
       /\ frames[g].caller # 0
       /\ frames[frames[g].caller].chain[frames[g].callerLink] = 1
       /\ FrameResult(frames[g]).st = "fulfilled"
       /\ Delivered(g) = Arr(<<2>>)

(* ============================ stalled loads ============================ *)
(* The load pass with a load that never completes: the promise of           *)
(* getContent of at most MaxStalls calls stays pending for ever.  Every     *)
(* other step of the pass is taken once it can be.                         *)
(***************************************************************************)
MaxStalls == 1     \* loads of one pass that never complete

Stalled(n) == calls[n].status = "stalled"

\* `await getContent(input)' (line 500) of call n never resumes.
Stall(n) ==
  /\ calls[n].status = "loading"
  /\ Cardinality({k \in 1..Len(calls) : Stalled(k)}) < MaxStalls
  /\ calls' = [calls EXCEPT ![n].status = "stalled"]
  /\ UNCHANGED <<topKids, pass, loadedPresets, settled, applyVars, addon, presetsConfig,
                 otherVars>>

StallNext ==
  \/ LoadNext
  \/ \E n \in 1..Len(calls) : Stall(n)

SpecStall == LoadInit /\ [][StallNext]_vars /\ WF_vars(LoadNext)

\* Call n is k or one of the calls that await k: the chain of k.
RECURSIVE InChain(_, _)
InChain(n, k) ==
  IF k = 0 THEN FALSE
  ELSE IF k = n THEN TRUE
  ELSE InChain(n, calls[k].parent)

\* Call n is on the chain of a stalled call.
Blocked(n) == \E k \in CallIds : Stalled(k) /\ InChain(n, k)

\* C22: a stalled load blocks only its own chain: every call that was
\* dispatched, the siblings of a stalled call among them, settles unless the
\* stalled load is its own or one of the loads nested under it.
C22_StallContained ==
  \A n \in 1..MaxCalls :
    (n \in CallIds) ~> (n \in CallIds /\ (calls[n].status \in Settled \/ Blocked(n)))

\* One top-level load is stalled and its sibling has returned its list, the
\* entries of its own nested presets included.
C22_Witness ==
  \E k, n \in Range(topKids) :
    /\ k # n
    /\ Stalled(k)
    /\ Returned(n) /\ calls[n].kidsP # <<>>
    /\ Len(calls[n].result) > 1

(* ========================= re-entrant applies ========================== *)
(* The fold with function contributions that call the apply they are      *)
(* handed for another key or for their own.  Every step of a chain that    *)
(* can be taken is taken; the nesting of applies is cut at MaxDepth.       *)
(***************************************************************************)
NestExt == {Absent, Fn("touch"), Fn("defer"), Fn("throws"), Fn("nested"), Fn("self")}
NestOther == {Absent, Plain(Arr(<<2>>)), Fn("back")}
NestShapes == [ext : NestExt, other : NestOther]

NestInit ==
  /\ \E shapes \in SeqUpTo(NestShapes, MaxPresets) :
       presets = [i \in 1..Len(shapes) |->
                    [name |-> i, preset |-> shapes[i], options |-> i]]
  /\ frames = <<>>
  /\ invoked = {}
  /\ calls = <<>> /\ topKids = <<>> /\ pass = "resolved"
  /\ loadedPresets = <<>> /\ settled = <<>>
  /\ addon = <<>> /\ presetsConfig = <<>>
  /\ context = <<>> /\ script = <<>>

\* The steps of the promise chains: handlers and settlements.
ChainSteps ==
  \/ \E f \in 1..Len(frames) : \E j \in 1..Len(frames[f].links) : Invoke(f, j)
  \/ \E f \in 1..Len(frames) : \E j \in 1..Len(frames[f].links) : Settles(f, j)
  \/ \E f \in 1..Len(frames) : \E j \in 1..Len(frames[f].links) : NestedSettles(f, j)
  \/ \E f \in 1..Len(frames) : \E j \in 1..Len(frames[f].links) : Rejected(f, j)

NestNext ==
  \/ \E k \in Keys, c \in Seeds : Apply(k, c)
  \/ ChainSteps

SpecNest == NestInit /\ [][NestNext]_vars /\ WF_vars(ChainSteps)

\* Some contribution for key K calls the nested apply with key M.
Edge(K, M) ==
  \E i \in 1..Len(presets) :
    LET c == presets[i].preset[K]
    IN c.kind = "fn" /\ c.fn \in NestingFns /\ NestedKey(c.fn, K) = M

RECURSIVE ReachIn(_, _)
ReachIn(S, n) ==
  IF n = 0 THEN S
  ELSE ReachIn(S \cup {M \in Keys : \E K \in S : Edge(K, M)}, n - 1)

\* The keys an apply of K reaches through nested applies, K itself not counted
\* unless a nested apply comes back to it.
ReachFrom(K) == ReachIn({M \in Keys : Edge(K, M)}, Cardinality(Keys))

\* An apply of K reaches a key that triggers a nested apply of itself.
CycleFrom(K) == \E M \in ReachFrom(K) \cup {K} : M \in ReachFrom(M)

\* Every apply call whose key reaches no cycle is settled.
NoneThrows ==
  \A i \in 1..Len(presets) : \A K \in Keys : presets[i].preset[K] # Fn("throws")

\* Every apply call whose key reaches no cycle is settled, and fulfilled when
\* no contribution throws.
AcyclicSettled ==
  \A f \in FrameIds :
    ~CycleFrom(frames[f].ext) =>
      /\ FrameSettled(frames[f])
      /\ NoneThrows => FrameResult(frames[f]).st = "fulfilled"

\* A contribution that called the nested apply with its own key is still
\* waiting for it, and so is the apply call it belongs to.
SelfNeverSettles ==
  \A f \in FrameIds : \A j \in LinkIds(f) :
    (Link(f, j).ran /\ Change(f, j).fn = "self")
      => (Link(f, j).st = "running" /\ ~FrameSettled(frames[f]))

\* C23: an apply call whose key reaches no cycle of nested applies settles
\* once every contribution has returned; a contribution that calls the nested
\* apply with its own key is re-entered by it and its apply call never
\* settles.
C23_Termination == ([]<>AcyclicSettled) /\ ([]SelfNeverSettles)

\* A contribution for "ext" that asks for "ext" has been entered at every
\* depth the nesting is followed to.
C23_Witness ==
  /\ \E i \in 1..Len(presets) :
       /\ presets[i].preset.ext = Fn("self")
       /\ Cardinality({r \in invoked : r.pos = i}) = MaxDepth
  /\ \E f \in FrameIds : Depth(f) = MaxDepth /\ frames[f].ext = "ext"

(* ============================ combinedOptions ========================== *)
(* The second argument of a function contribution (lines 590-602), as a    *)
(* function of the host options, the args of the apply call and the        *)
(* options of the contributing preset.  A value records where it is from.  *)
(***************************************************************************)
OptionKeys == {"configDir", "presetsList", "presets"}

From(who, i) == [from |-> who, of |-> i]
\* the list being folded, and the apply bound to it (lines 596-600)
ListRef == From("list", 0)
ApplyRef == From("apply", 0)

\* The objects that give the value From(who, i) to some of the keys; the empty
\* one also stands for options that are undefined.
OptionsOf(who, i) == {[k \in D |-> From(who, i)] : D \in SUBSET OptionKeys}

\* A merge in which the args of the call override the preset's options.
combinedOptionsArgsLast(storybookOptions, args, options) ==
  spread(spread(spread(storybookOptions, options), args),
         ("presetsList" :> ListRef) @@ ("presets" :> ApplyRef))

\* { ...storybookOptions, ...args, ...options, presetsList, presets }
\* (lines 592-601)
combinedOptions(storybookOptions, args, options) ==
  spread(spread(spread(storybookOptions, args), options),
         ("presetsList" :> ListRef) @@ ("presets" :> ApplyRef))

\* The reduce callback builds the context of the function contribution of the
\* preset at position i (lines 588-602).
BuildContext(i) ==
  /\ \A b \in context.built : b.pos # i
  /\ context' = [context EXCEPT !.built =
        @ \cup {[pos |-> i,
                 combinedOptions |->
                   combinedOptions(context.storybookOptions, context.args,
                                   context.options[i])]}]
  /\ UNCHANGED <<loadVars, applyVars, addon, presetsConfig, script>>

OptionsInit ==
  /\ \E h \in OptionsOf("host", 0), a \in OptionsOf("args", 0),
        n \in 0..MaxPresets :
       \E o \in [1..n -> UNION {OptionsOf("preset", i) : i \in 1..n}] :
         /\ \A i \in 1..n : o[i] \in OptionsOf("preset", i)
         /\ context = [storybookOptions |-> h, args |-> a, options |-> o, built |-> {}]
  /\ script = <<>>
  /\ addon = <<>> /\ presetsConfig = <<>>
  /\ presets = <<>> /\ frames = <<>> /\ invoked = {}
  /\ calls = <<>> /\ topKids = <<>> /\ pass = "resolved"
  /\ loadedPresets = <<>> /\ settled = <<>>

OptionsNext == \E i \in 1..Len(context.options) : BuildContext(i)

SpecOptions == OptionsInit /\ [][OptionsNext]_vars

\* C24: in the combinedOptions of a contribution a key holds the value of the
\* contributing preset's options if they define it, else that of the args,
\* else that of the host options; presetsList and presets are the list being
\* folded and the apply bound to it whoever else defines those keys; and no
\* value comes from the options of another preset.
C24_Precedence ==
  \A b \in context.built :
    LET c == b.combinedOptions
        own == context.options[b.pos]
    IN /\ c["presetsList"] = ListRef
       /\ c["presets"] = ApplyRef
       /\ \A k \in OptionKeys \ {"presetsList", "presets"} :
            /\ (k \in DOMAIN c) <=> (k \in (DOMAIN own) \cup (DOMAIN context.args)
                                          \cup (DOMAIN context.storybookOptions))
            /\ k \in DOMAIN c =>
                 c[k] = IF k \in DOMAIN own THEN own[k]
                        ELSE IF k \in DOMAIN context.args THEN context.args[k]
                        ELSE context.storybookOptions[k]
       /\ \A k \in DOMAIN c : c[k].from = "preset" => c[k].of = b.pos

\* Host options, args and the options of both presets define every key, and
\* the context of the second preset has been built.
C24_Witness ==
  /\ Len(context.options) = 2
  /\ DOMAIN context.storybookOptions = OptionKeys
  /\ DOMAIN context.args = OptionKeys
  /\ \A i \in 1..2 : DOMAIN context.options[i] = OptionKeys
  /\ \E b \in context.built : b.pos = 2 /\ b.combinedOptions["configDir"] = From("preset", 2)

(* ============================ the bundler script ======================= *)
(* run (lines 32-149) and its self execution (lines 213-221).  Every call  *)
(* run awaits is a promise that fulfils or rejects; an action is the       *)
(* settling of one of them together with the synchronous code that follows *)
(* up to the next await.  script.log records what started and ended.       *)
(***************************************************************************)
MaxEntries == 2

Formats == {<<>>, <<"esm">>, <<"cjs">>, <<"esm", "cjs">>, <<"cjs", "esm">>}

Ev(ev, step, n) == [ev |-> ev, step |-> step, n |-> n]
Logged(s, ev, step, n) == [s EXCEPT !.log = Append(@, Ev(ev, step, n))]

includes(formats, f) == \E i \in 1..Len(formats) : formats[i] = f

\* The build tasks pushed at lines 78-132, in the order they are pushed.
TasksOf(s) ==
  (IF includes(s.formats, "esm") /\ s.entries + s.browserEntries > 0
     THEN <<"esm">> ELSE <<>>)
  \o (IF includes(s.formats, "cjs") /\ s.entries + s.nodeEntries > 0
        THEN <<"cjs">> ELSE <<>>)

RECURSIVE StartAll(_, _, _)
StartAll(s, step, k) ==
  IF k = 0 THEN s
  ELSE Logged(StartAll(s, step, k - 1), "start", step, k)

\* Promise.all fulfils as soon as one of its promises has fulfilled.
anyFulfilled(ps) == \E k \in DOMAIN ps : ps[k] = "fulfilled"

\* Promise.all(ps) fulfils when every one of its promises has (lines 134, 137)
allFulfilled(ps) == \A k \in DOMAIN ps : ps[k] = "fulfilled"
\* and rejects as soon as one of them rejects.
someRejected(ps) == \E k \in DOMAIN ps : ps[k] = "rejected"

\* console.log('done') and the return of run (line 148)
afterPost(s) == [Logged(s, "done", "run", 0) EXCEPT !.pc = "returned"]

\* lines 140-146
afterDts(s) ==
  IF s.post THEN [Logged(s, "start", "post", 0) EXCEPT !.pc = "post"]
  ELSE afterPost(s)

\* lines 136-138: every generateDTSMapperFile call runs to its first await
afterTasks(s) ==
  IF s.tsConfigExists /\ ~s.optimized
    THEN [StartAll(s, "dts", s.entries) EXCEPT
            !.pc = "mappers", !.mappers = [e \in 1..s.entries |-> "ensureFile"]]
    ELSE afterDts(s)

\* lines 78-134: the tasks are pushed, then awaited together
afterDTSConfigs(s) ==
  LET ts == TasksOf(s)
      started == IF Len(ts) = 0 THEN s
                 ELSE IF Len(ts) = 1 THEN Logged(s, "start", ts[1], 0)
                 ELSE Logged(Logged(s, "start", ts[1], 0), "start", ts[2], 0)
  IN [started EXCEPT !.pc = "tasks",
                     !.tasks = [f \in {ts[i] : i \in 1..Len(ts)} |-> "pending"]]

\* lines 62-76
afterReset(s) == [Logged(s, "start", "getDTSConfigs", 0) EXCEPT !.pc = "getDTSConfigs"]

\* lines 54-60
afterPre(s) ==
  IF s.reset THEN [Logged(s, "start", "emptyDir", 0) EXCEPT !.pc = "emptyDir"]
  ELSE afterReset(s)

\* lines 50-52
afterRead(s) ==
  IF s.pre THEN [Logged(s, "start", "pre", 0) EXCEPT !.pc = "pre"]
  ELSE afterPre(s)

\* an awaited promise rejects: run rejects with it
Rejects(s, step, n) == [Logged(s, "fail", step, n) EXCEPT !.pc = "rejected"]

ScriptUnchanged == UNCHANGED <<loadVars, applyVars, addon, presetsConfig, context>>

\* fs.readJson settles (line 47)
readJsonSettles(ok) ==
  /\ script.pc = "readJson"
  /\ script' = IF ok THEN afterRead(Logged(script, "end", "readJson", 0))
               ELSE Rejects(script, "readJson", 0)
  /\ ScriptUnchanged

\* the pre script settles (line 51)
preSettles(ok) ==
  /\ script.pc = "pre"
  /\ script' = IF ok THEN afterPre(Logged(script, "end", "pre", 0))
               ELSE Rejects(script, "pre", 0)
  /\ ScriptUnchanged

\* fs.emptyDir settles (line 59)
emptyDirSettles(ok) ==
  /\ script.pc = "emptyDir"
  /\ script' = IF ok THEN afterReset(Logged(script, "end", "emptyDir", 0))
               ELSE Rejects(script, "emptyDir", 0)
  /\ ScriptUnchanged

\* getDTSConfigs: fs.pathExists answers, dtsBuild is chosen (lines 153-176)
getDTSConfigs(exists) ==
  /\ script.pc = "getDTSConfigs"
  /\ script' = afterDTSConfigs(
       [Logged(script, "end", "getDTSConfigs", 0) EXCEPT
          !.tsConfigExists = exists,
          !.dtsBuild = IF script.optimized /\ Len(script.formats) > 0 /\ exists
                         THEN script.formats[1] ELSE "undefined"])
  /\ ScriptUnchanged

\* one build task settles (lines 79, 111); until the process has exited a task
\* that is running goes on running
buildSettles(f, ok) ==
  /\ script.pc \in {"tasks", "rejected"}
  /\ f \in DOMAIN script.tasks
  /\ script.tasks[f] = "pending"
  /\ script' = [Logged(script, IF ok THEN "end" ELSE "fail", f, 0) EXCEPT
                  !.tasks[f] = IF ok THEN "fulfilled" ELSE "rejected"]
  /\ ScriptUnchanged

\* await Promise.all(tasks) (line 134)
tasksSettle ==
  /\ script.pc = "tasks"
  /\ \/ /\ someRejected(script.tasks)
        /\ script' = [script EXCEPT !.pc = "rejected"]
     \/ /\ ~someRejected(script.tasks)
        /\ allFulfilled(script.tasks)
        /\ script' = afterTasks(script)
  /\ ScriptUnchanged

\* fs.ensureFile of one mapper file settles (line 195)
ensureFileSettles(e, ok) ==
  /\ script.pc \in {"mappers", "rejected"}
  /\ e \in DOMAIN script.mappers
  /\ script.mappers[e] = "ensureFile"
  /\ script' = IF ok THEN [script EXCEPT !.mappers[e] = "writeFile"]
               ELSE [Logged(script, "fail", "dts", e) EXCEPT !.mappers[e] = "rejected"]
  /\ ScriptUnchanged

\* fs.writeFile of one mapper file settles (lines 196-203)
writeFileSettles(e, ok) ==
  /\ script.pc \in {"mappers", "rejected"}
  /\ e \in DOMAIN script.mappers
  /\ script.mappers[e] = "writeFile"
  /\ script' = [Logged(script, IF ok THEN "end" ELSE "fail", "dts", e) EXCEPT
                  !.mappers[e] = IF ok THEN "fulfilled" ELSE "rejected"]
  /\ ScriptUnchanged

\* await Promise.all(entries.map(generateDTSMapperFile)) (line 137)
mappersSettle ==
  /\ script.pc = "mappers"
  /\ \/ /\ someRejected(script.mappers)
        /\ script' = [script EXCEPT !.pc = "rejected"]
     \/ /\ ~someRejected(script.mappers)
        /\ allFulfilled(script.mappers)
        /\ script' = afterDts(script)
  /\ ScriptUnchanged

\* the post script settles (lines 141-145)
postSettles(ok) ==
  /\ script.pc = "post"
  /\ script' = IF ok THEN afterPost(Logged(script, "end", "post", 0))
               ELSE Rejects(script, "post", 0)
  /\ ScriptUnchanged

\* run({ cwd, flags }).catch(...): process.exit(1) (lines 213-221)
catchExit ==
  /\ script.pc = "rejected"
  /\ script' = [Logged(script, "exit", "run", 1) EXCEPT !.pc = "exited", !.exitCode = 1]
  /\ ScriptUnchanged

\* run is called with the package.json and the flags of one package
RunInit ==
  /\ \E pre \in BOOLEAN, post \in BOOLEAN, reset \in BOOLEAN, optimized \in BOOLEAN,
        formats \in Formats, entries \in 0..MaxEntries,
        browserEntries \in 0..1, nodeEntries \in 0..1 :
       script = [pc |-> "readJson", pre |-> pre, post |-> post, reset |-> reset,
                 optimized |-> optimized, formats |-> formats, entries |-> entries,
                 browserEntries |-> browserEntries, nodeEntries |-> nodeEntries,
                 tsConfigExists |-> FALSE, dtsBuild |-> "undefined",
                 tasks |-> <<>>, mappers |-> <<>>,
                 log |-> <<Ev("start", "readJson", 0)>>, exitCode |-> -1]
  /\ context = <<>>
  /\ addon = <<>> /\ presetsConfig = <<>>
  /\ presets = <<>> /\ frames = <<>> /\ invoked = {}
  /\ calls = <<>> /\ topKids = <<>> /\ pass = "resolved"
  /\ loadedPresets = <<>> /\ settled = <<>>

\* the continuations of run itself, which the event loop runs once they are due
RunSteps == tasksSettle \/ mappersSettle \/ catchExit

RunNext ==
  \/ \E ok \in BOOLEAN : readJsonSettles(ok)
  \/ \E ok \in BOOLEAN : preSettles(ok)
  \/ \E ok \in BOOLEAN : emptyDirSettles(ok)
  \/ \E exists \in BOOLEAN : getDTSConfigs(exists)
  \/ \E f \in {"esm", "cjs"}, ok \in BOOLEAN : buildSettles(f, ok)
  \/ tasksSettle
  \/ \E e \in 1..MaxEntries, ok \in BOOLEAN : ensureFileSettles(e, ok)
  \/ \E e \in 1..MaxEntries, ok \in BOOLEAN : writeFileSettles(e, ok)
  \/ mappersSettle
  \/ \E ok \in BOOLEAN : postSettles(ok)
  \/ catchExit

SpecRun == RunInit /\ [][RunNext]_vars /\ WF_vars(RunSteps)

Builds == {"esm", "cjs"}
LogIds == 1..Len(script.log)
Is(i, ev, step) == script.log[i].ev = ev /\ script.log[i].step = step
\* every start of the step before position i has its end before position i
EndedBefore(step, i) ==
  \A j \in LogIds :
    (j < i /\ Is(j, "start", step)) =>
      \E k \in LogIds : k < i /\ Is(k, "end", step) /\ script.log[k].n = script.log[j].n
StartedBefore(step, i) == \E j \in LogIds : j < i /\ Is(j, "start", step)

RunOrdered ==
  \A i \in LogIds :
    LET e == script.log[i] IN
    \* a build task starts after the pre script has ended, when one is configured
    /\ (e.ev = "start" /\ e.step \in Builds /\ script.pre) =>
         \E k \in LogIds : k < i /\ Is(k, "end", "pre")
    \* the tasks the package calls for are all started before one of them settles
    /\ (e.ev \in {"end", "fail"} /\ e.step \in Builds) =>
         \A k \in 1..Len(TasksOf(script)) : StartedBefore(TasksOf(script)[k], i)
    \* a mapper file is started after every task the package calls for has ended
    /\ (e.ev = "start" /\ e.step = "dts") =>
         \A k \in 1..Len(TasksOf(script)) :
           StartedBefore(TasksOf(script)[k], i) /\ EndedBefore(TasksOf(script)[k], i)
    \* the post script starts after the tasks and the mapper files
    /\ (e.ev = "start" /\ e.step = "post") =>
         /\ \A k \in 1..Len(TasksOf(script)) :
              StartedBefore(TasksOf(script)[k], i) /\ EndedBefore(TasksOf(script)[k], i)
         /\ EndedBefore("dts", i)
         /\ (script.tsConfigExists /\ ~script.optimized) =>
              \A n \in 1..script.entries :
                \E k \in LogIds : k < i /\ Is(k, "end", "dts") /\ script.log[k].n = n
    \* 'done' is printed last, after every step that was started has ended
    /\ e.ev = "done" =>
         /\ i = Len(script.log)
         /\ \A j \in LogIds : script.log[j].ev # "fail"
         /\ \A j \in LogIds : script.log[j].ev = "start" => EndedBefore(script.log[j].step, i)
         /\ script.post => \E k \in LogIds : k < i /\ Is(k, "end", "post")
    \* after a failure nothing is started and 'done' is not printed
    /\ e.ev = "fail" =>
         \A j \in LogIds : j > i => script.log[j].ev \notin {"start", "done"}
    \* the process exits only after a failure, with code 1
    /\ e.ev = "exit" =>
         /\ e.n = 1 /\ script.exitCode = 1 /\ i = Len(script.log)
         /\ \E j \in LogIds : j < i /\ script.log[j].ev = "fail"

Failed == \E i \in LogIds : script.log[i].ev = "fail"
ExitedWithOne == script.pc = "exited" /\ script.exitCode = 1

\* C25: in run the pre script ends before a build task starts, the esm and
\* cjs tasks are both started before either settles and have all ended before
\* a DTS mapper file is started, the post script starts after that and 'done'
\* comes last; once a step has failed nothing is started any more, 'done' is
\* not printed, and the process exits with code 1.
C25_RunOrder == ([]RunOrdered) /\ (Failed ~> ExitedWithOne)

\* Both tasks, two mapper files and both scripts have run and 'done' is printed.
C25_Witness ==
  /\ script.pc = "returned"
  /\ script.pre /\ script.post
  /\ \E i, j \in LogIds : Is(i, "end", "esm") /\ Is(j, "end", "cjs")
  /\ \E i \in LogIds : Is(i, "end", "dts") /\ script.log[i].n = 2
  /\ script.log[Len(script.log)].ev = "done"

\* The esm task failed while the cjs task was running, and the process exited.
C25_WitnessFailure ==
  /\ script.pc = "exited"
  /\ \E i \in LogIds : Is(i, "fail", "esm")
  /\ "cjs" \in DOMAIN script.tasks

====
